---- MODULE Spec2Model ----
(***************************************************************************)
(* A model of src/bot2.py, the bank statement chatbot: the PDF table       *)
(* normaliser (process_pdf_data), the "Process PDF" handler, the           *)
(* aggregation helpers and the query dispatch chain of one script run.     *)
(*                                                                         *)
(* Text is modelled as a sequence of one-character strings, so that        *)
(* substring tests, str.split, str.strip, str.lower and number parsing are *)
(* computed and not assumed.  Amounts are integers.                        *)
(***************************************************************************)
EXTENDS Integers, Sequences, FiniteSets, TLC

VARIABLES
    \* SpecDedup: a header, and the deduplication applied once and twice
    hdr, dcols, dcols2, dpc,
    \* SpecNormalize: a PDF and what process_pdf_data makes of it
    nfile, nres, npc,
    \* Spec: st.session_state.df and pdf_url, the result of the last
    \* process_pdf_data call, what the run showed, the number of attempts
    df, pdf_url, result, shown, attempts,
    \* SpecTop: a table, n, and what get_top_debits / get_top_credits give
    tdf, tn, tout, tpc,
    \* SpecQuery: st.session_state.query, search_term, min_amt, max_amt and
    \* amt_col; of the current run: whether Apply Filters was pressed, the
    \* radio selection, the typed question, what the run displayed, and the
    \* position in the script
    query, search_term, min_amt, max_amt, amt_col,
    applied, selected, user_query, out, qpc

dedupVars == <<hdr, dcols, dcols2, dpc>>
normVars == <<nfile, nres, npc>>
sessVars == <<df, pdf_url, result, shown, attempts>>
topVars == <<tdf, tn, tout, tpc>>
queryVars ==
    <<query, search_term, min_amt, max_amt, amt_col,
      applied, selected, user_query, out, qpc>>
vars == <<dedupVars, normVars, sessVars, topVars, queryVars>>

\* The variables of a specification that another specification leaves idle.
DedupIdle == hdr = <<>> /\ dcols = <<>> /\ dcols2 = <<>> /\ dpc = "idle"
NormIdle == nfile = <<>> /\ nres = <<>> /\ npc = "idle"
SessIdle ==
    /\ df = <<>> /\ pdf_url = <<>> /\ result = <<>> /\ shown = "idle"
    /\ attempts = 0
TopIdle == tdf = <<>> /\ tn = 0 /\ tout = <<>> /\ tpc = "idle"
QueryIdle ==
    /\ query = <<>> /\ search_term = <<>> /\ min_amt = 0 /\ max_amt = 0
    /\ amt_col = <<>> /\ applied = FALSE /\ selected = 0
    /\ user_query = <<>> /\ out = <<>> /\ qpc = "idle"

(***************************************************************************)
(* Text helpers (Python str operations used by the program).               *)
(***************************************************************************)
DigitChar == <<"0", "1", "2", "3", "4", "5", "6", "7", "8", "9">>

\* str(i) for a natural number i, as the f-string of line 50 formats it.
RECURSIVE IntToStr(_)
IntToStr(i) ==
    IF i < 10 THEN <<DigitChar[i + 1]>>
    ELSE IntToStr(i \div 10) \o <<DigitChar[(i % 10) + 1]>>

\* Python's  sub in s  on strings.
Contains(s, sub) ==
    \E k \in 0..(Len(s) - Len(sub)) :
        \A j \in 1..Len(sub) : s[k + j] = sub[j]

\* str.lower() on one character.
LowerChar(c) ==
    CASE c = "A" -> "a"
      [] c = "B" -> "b"
      [] c = "C" -> "c"
      [] c = "D" -> "d"
      [] c = "E" -> "e"
      [] c = "F" -> "f"
      [] c = "G" -> "g"
      [] c = "H" -> "h"
      [] c = "I" -> "i"
      [] c = "J" -> "j"
      [] c = "K" -> "k"
      [] c = "L" -> "l"
      [] c = "M" -> "m"
      [] c = "N" -> "n"
      [] c = "O" -> "o"
      [] c = "P" -> "p"
      [] c = "Q" -> "q"
      [] c = "R" -> "r"
      [] c = "S" -> "s"
      [] c = "T" -> "t"
      [] c = "U" -> "u"
      [] c = "V" -> "v"
      [] c = "W" -> "w"
      [] c = "X" -> "x"
      [] c = "Y" -> "y"
      [] c = "Z" -> "z"
      [] OTHER -> c

\* str.lower()
Lower(s) == [k \in 1..Len(s) |-> LowerChar(s[k])]

\* No label occurs at two positions of s.
PairwiseDistinct(s) ==
    \A i, j \in 1..Len(s) : i # j => s[i] # s[j]

(***************************************************************************)
(* Column-label deduplication, lines 47-51 of process_pdf_data.            *)
(***************************************************************************)
\* pd.Series.duplicated()[i]: an earlier position holds the same label.
\* Positions are 1-based here; the code's index is i - 1.
Duplicated(cols, i) == \E j \in 1..(i - 1) : cols[j] = cols[i]

\* The loop of lines 48-50 from position i on; duplicated() is evaluated
\* again on the series as modified so far, as the code does.
RECURSIVE DedupFrom(_, _)
DedupFrom(cols, i) ==
    IF i > Len(cols) THEN cols
    ELSE DedupFrom(
            IF Duplicated(cols, i)
            THEN [cols EXCEPT ![i] = cols[i] \o <<"_">> \o IntToStr(i - 1)]
            ELSE cols,
            i + 1)

DedupColumns(cols) == DedupFrom(cols, 1)

(***************************************************************************)
(* Values of a table cell.  A raw cell is text; after concatenation a cell *)
(* may be NaN; after coercion it is a number, a timestamp or NaT.          *)
(***************************************************************************)
Txt(s) == [t |-> "str", v |-> s]
NaN == [t |-> "nan"]
Num(n) == [t |-> "num", v |-> n]
NaT == [t |-> "nat"]
\* A timestamp of the year 2024.
Stamp(m, d) == [t |-> "date", month |-> m, day |-> d]

\* A DataFrame: column labels in order, and rows of cells in column order.
Frame(columns, rows) == [kind |-> "frame", columns |-> columns, rows |-> rows]
\* pd.DataFrame()
EmptyFrame == Frame(<<>>, <<>>)
\* What process_pdf_data gives back besides a frame: None (after st.error),
\* or an exception that leaves the function uncaught.
ReturnedNone == [kind |-> "none"]
Raised == [kind |-> "raised"]

\* DataFrame.empty: no columns or no rows.
IsEmptyFrame(f) == Len(f.columns) = 0 \/ Len(f.rows) = 0

\* The canonical column names of lines 71-74.
cDate == <<"D", "a", "t", "e">>
cDebit == <<"D", "e", "b", "i", "t">>
cCredit == <<"C", "r", "e", "d", "i", "t">>
cReference == <<"R", "e", "f", "e", "r", "e", "n", "c", "e">>

\* name in df.columns
HasColumn(f, name) == \E i \in 1..Len(f.columns) : f.columns[i] = name

\* The positions of the columns labelled name, in table order.
ColumnPositions(f, name) == { i \in 1..Len(f.columns) : f.columns[i] = name }

SetMin(S) == CHOOSE x \in S : \A y \in S : x <= y

\* The position of the (first) column labelled name.
ColumnIndex(f, name) == SetMin(ColumnPositions(f, name))

(***************************************************************************)
(* Number and date coercion, lines 78 and 80.                              *)
(***************************************************************************)
IsDigit(c) == \E k \in 1..10 : DigitChar[k] = c
DigitValue(c) == (CHOOSE k \in 1..10 : DigitChar[k] = c) - 1

\* astype(str): text stays, NaN becomes "nan".
AsStr(v) == IF v.t = "str" THEN v.v ELSE <<"n", "a", "n">>

\* str.replace(",", "")
RECURSIVE RemoveCommas(_)
RemoveCommas(s) ==
    IF s = <<>> THEN <<>>
    ELSE IF Head(s) = "," THEN RemoveCommas(Tail(s))
    ELSE <<Head(s)>> \o RemoveCommas(Tail(s))

\* str.strip(): leading and trailing blanks removed.
RECURSIVE StripLeft(_)
StripLeft(s) ==
    IF s # <<>> /\ Head(s) = " " THEN StripLeft(Tail(s)) ELSE s

RECURSIVE StripRight(_)
StripRight(s) ==
    IF s # <<>> /\ s[Len(s)] = " " THEN StripRight(SubSeq(s, 1, Len(s) - 1))
    ELSE s

Strip(s) == StripRight(StripLeft(s))

RECURSIVE DigitsValue(_)
DigitsValue(s) ==
    IF s = <<>> THEN 0
    ELSE 10 * DigitsValue(SubSeq(s, 1, Len(s) - 1)) + DigitValue(s[Len(s)])

AllDigits(s) == s # <<>> /\ \A k \in 1..Len(s) : IsDigit(s[k])

\* pd.to_numeric(..., errors="coerce") on one text: an optional sign and
\* digits parse to the signed number, anything else (also "nan") to NaN.
ToNumeric(s) ==
    IF AllDigits(s) THEN Num(DigitsValue(s))
    ELSE IF s # <<>> /\ Head(s) = "-" /\ AllDigits(Tail(s))
         THEN Num(0 - DigitsValue(Tail(s)))
    ELSE IF s # <<>> /\ Head(s) = "+" /\ AllDigits(Tail(s))
         THEN Num(DigitsValue(Tail(s)))
    ELSE NaN

\* .fillna(0)
FillNa0(v) == IF v.t = "nan" THEN Num(0) ELSE v

\* Line 78 on one cell.
CoerceAmount(v) == FillNa0(ToNumeric(Strip(RemoveCommas(AsStr(v)))))

\* pd.to_datetime(..., errors="coerce") on one cell.  Of the permissive
\* parser only the shape M/D/24 (month and day of one digit, the year 2024)
\* is modelled; every other text of this model, and NaN, is taken as
\* unparsable and becomes NaT.
ToDatetime(v) ==
    IF /\ v.t = "str" /\ Len(v.v) = 6
       /\ IsDigit(v.v[1]) /\ v.v[2] = "/" /\ IsDigit(v.v[3])
       /\ SubSeq(v.v, 4, 6) = <<"/", "2", "4">>
       /\ DigitValue(v.v[1]) >= 1 /\ DigitValue(v.v[3]) >= 1
    THEN Stamp(DigitValue(v.v[1]), DigitValue(v.v[3]))
    ELSE NaT

(***************************************************************************)
(* process_pdf_data, lines 39-81.                                          *)
(*                                                                         *)
(* A PDF is [password, corrupt, pages]: the password it is encrypted with  *)
(* (<<>> for none), whether reading it raises, and per page the table      *)
(* page.extract_table() gives: <<>> for none, else <<header, row, ...>>.   *)
(***************************************************************************)
Pdf(password, corrupt, pages) ==
    [password |-> password, corrupt |-> corrupt, pages |-> pages]

\* Lines 46-51: one page's table as a frame with deduplicated labels.
PageFrame(table) ==
    Frame(DedupColumns(table[1]), [r \in 1..(Len(table) - 1) |->
        [c \in 1..Len(table[1]) |-> Txt(table[r + 1][c])]])

\* Lines 43-52: the frames of the pages that have a table, in page order.
RECURSIVE PageFrames(_)
PageFrames(pages) ==
    IF pages = <<>> THEN <<>>
    ELSE IF Head(pages) = <<>> THEN PageFrames(Tail(pages))
    ELSE <<PageFrame(Head(pages))>> \o PageFrames(Tail(pages))

\* The labels of s without repetition, in order of first appearance.
RECURSIVE Uniq(_)
Uniq(s) ==
    IF s = <<>> THEN <<>>
    ELSE LET init == Uniq(SubSeq(s, 1, Len(s) - 1))
             last == s[Len(s)]
         IN IF \E k \in 1..Len(init) : init[k] = last THEN init
            ELSE Append(init, last)

RECURSIVE FlattenSeqs(_)
FlattenSeqs(ss) ==
    IF ss = <<>> THEN <<>> ELSE Head(ss) \o FlattenSeqs(Tail(ss))

\* pd.concat cannot align frames whose labels differ when one of them has
\* a repeated label: it raises (InvalidIndexError), outside the try block.
ConcatRaises(frames) ==
    /\ \E i \in 1..Len(frames) : ~PairwiseDistinct(frames[i].columns)
    /\ \E i \in 1..Len(frames) : frames[i].columns # frames[1].columns

\* Line 61, pd.concat(all_data, ignore_index=True): the union of the
\* labels in order of first appearance, the rows stacked in page order, a
\* cell of a column its page does not have is NaN.
ConcatFrames(frames) ==
    IF \A i \in 1..Len(frames) : frames[i].columns = frames[1].columns
    THEN Frame(frames[1].columns,
               FlattenSeqs([i \in 1..Len(frames) |-> frames[i].rows]))
    ELSE
      LET columns == Uniq(FlattenSeqs([i \in 1..Len(frames) |-> frames[i].columns]))
          Align(f, row) ==
              [c \in 1..Len(columns) |->
                  IF HasColumn(f, columns[c])
                  THEN row[ColumnIndex(f, columns[c])] ELSE NaN]
      IN Frame(columns,
               FlattenSeqs([i \in 1..Len(frames) |->
                   [r \in 1..Len(frames[i].rows) |->
                       Align(frames[i], frames[i].rows[r])]]))

\* The trigger substrings of lines 63-66.
DateTriggers == { <<"d", "a", "t", "e">> }
DebitTriggers ==
    { <<"d", "e", "b", "i", "t">>, <<"w", "i", "t", "h", "d", "r", "a", "w">> }
CreditTriggers ==
    { <<"c", "r", "e", "d", "i", "t">>, <<"d", "e", "p", "o", "s", "i", "t">> }
ReferenceTriggers ==
    { <<"r", "e", "f">>, <<"p", "a", "r", "t", "i", "c", "u", "l", "a", "r">> }

\* next((c for c in columns if ...), None) finds no column.
NoColumn == <<>>

MatchesRole(label, triggers) == \E t \in triggers : Contains(Lower(label), t)

\* Lines 63-66: the first label, in table order, that contains a trigger.
FirstMatch(columns, triggers) ==
    LET hits == { i \in 1..Len(columns) : MatchesRole(columns[i], triggers) }
    IN IF hits = {} THEN NoColumn ELSE columns[SetMin(hits)]

\* Line 67: the matched labels in the order Date, Debit, Credit, Reference.
KeepCols(date_col, debit_col, credit_col, ref_col) ==
    SelectSeq(<<date_col, debit_col, credit_col, ref_col>>,
              LAMBDA c : c # NoColumn)

\* Lines 70-74: rename_map is a dict, so of the roles a label was matched
\* for, the one assigned last stays.
RenameMap(date_col, debit_col, credit_col, ref_col, label) ==
    IF label = ref_col THEN cReference
    ELSE IF label = credit_col THEN cCredit
    ELSE IF label = debit_col THEN cDebit
    ELSE cDate

\* df[keep_cols]: for each kept label, every column of df that has it.
RECURSIVE SelectPositions(_, _)
SelectPositions(f, keep) ==
    IF keep = <<>> THEN <<>>
    ELSE LET ps == ColumnPositions(f, Head(keep))
             RECURSIVE Asc(_)
             Asc(S) == IF S = {} THEN <<>>
                       ELSE <<SetMin(S)>> \o Asc(S \ {SetMin(S)})
         IN Asc(ps) \o SelectPositions(f, Tail(keep))

\* Line 75: project to the kept columns and rename them.
ProjectRename(f, date_col, debit_col, credit_col, ref_col) ==
    LET ps == SelectPositions(f, KeepCols(date_col, debit_col, credit_col, ref_col))
    IN Frame([k \in 1..Len(ps) |->
                 RenameMap(date_col, debit_col, credit_col, ref_col,
                           f.columns[ps[k]])],
             [r \in 1..Len(f.rows) |-> [k \in 1..Len(ps) |-> f.rows[r][ps[k]]]])

\* df[name] is a DataFrame, not a Series, when the label is repeated: the
\* .str accessor of line 78 and pd.to_datetime of line 80 then raise.
ColumnIsRepeated(f, name) == Cardinality(ColumnPositions(f, name)) > 1

\* Lines 76-78 for one of the two amount columns: every cell of the column
\* labelled name is coerced, when there is such a column.
CoerceAmountColumn(f, name) ==
    Frame(f.columns,
          [r \in 1..Len(f.rows) |->
              [c \in 1..Len(f.columns) |->
                  IF f.columns[c] = name THEN CoerceAmount(f.rows[r][c])
                  ELSE f.rows[r][c]]])

\* Lines 79-80.
CoerceDateColumn(f) ==
    Frame(f.columns,
          [r \in 1..Len(f.rows) |->
              [c \in 1..Len(f.columns) |->
                  IF f.columns[c] = cDate THEN ToDatetime(f.rows[r][c])
                  ELSE f.rows[r][c]]])

\* Lines 62-81: role inference, projection, renaming and coercion of the
\* concatenated frame.
NormalizeFrame(f) ==
    LET date_col == FirstMatch(f.columns, DateTriggers)
        debit_col == FirstMatch(f.columns, DebitTriggers)
        credit_col == FirstMatch(f.columns, CreditTriggers)
        ref_col == FirstMatch(f.columns, ReferenceTriggers)
    IN IF KeepCols(date_col, debit_col, credit_col, ref_col) = <<>>
       THEN EmptyFrame
       ELSE LET p == ProjectRename(f, date_col, debit_col, credit_col, ref_col)
            IN IF \/ ColumnIsRepeated(p, cDebit)
                  \/ ColumnIsRepeated(p, cCredit)
                  \/ ColumnIsRepeated(p, cDate)
               THEN Raised
               ELSE CoerceDateColumn(
                        CoerceAmountColumn(CoerceAmountColumn(p, cDebit), cCredit))

\* pdfplumber.open(file, password=pwd if pwd else None) accepts the
\* password: the file has none, or it is the one given.
PasswordAccepted(file, pwd) == file.password = <<>> \/ file.password = pwd

process_pdf_data(file, pwd) ==
    IF ~PasswordAccepted(file, pwd) THEN ReturnedNone
    ELSE IF file.corrupt THEN ReturnedNone
    ELSE LET all_data == PageFrames(file.pages)
         IN IF all_data = <<>> THEN EmptyFrame
            ELSE IF ConcatRaises(all_data) THEN Raised
            ELSE NormalizeFrame(ConcatFrames(all_data))

(***************************************************************************)
(* Aggregation helpers, lines 106-157.  A Series is a sequence of          *)
(* <<label, value>> pairs in index order.                                  *)
(***************************************************************************)
\* The characters of this model in code-point order.
Alphabet ==
    <<" ", "*", "+", ",", "-", "/", "0", "1", "2", "3", "4", "5",
      "6", "7", "8", "9", "?", "A", "B", "C", "D", "E", "F", "G",
      "H", "I", "J", "K", "L", "M", "N", "O", "P", "Q", "R", "S",
      "T", "U", "V", "W", "X", "Y", "Z", "_", "a", "b", "c", "d",
      "e", "f", "g", "h", "i", "j", "k", "l", "m", "n", "o", "p",
      "q", "r", "s", "t", "u", "v", "w", "x", "y", "z">>

CharCode(c) == CHOOSE k \in 1..Len(Alphabet) : Alphabet[k] = c

\* Python's  a < b  on strings.
RECURSIVE TextLess(_, _)
TextLess(a, b) ==
    IF b = <<>> THEN FALSE
    ELSE IF a = <<>> THEN TRUE
    ELSE IF Head(a) = Head(b) THEN TextLess(Tail(a), Tail(b))
    ELSE CharCode(Head(a)) < CharCode(Head(b))

\* The values of the column labelled name, in row order.
ColumnValues(f, name) ==
    [r \in 1..Len(f.rows) |-> f.rows[r][ColumnIndex(f, name)]]

\* The set S of texts in ascending order.
RECURSIVE SortedTexts(_)
SortedTexts(S) ==
    IF S = {} THEN <<>>
    ELSE LET m == CHOOSE x \in S : \A y \in S : y = x \/ TextLess(x, y)
         IN <<m>> \o SortedTexts(S \ {m})

RECURSIVE SumNums(_)
SumNums(vs) ==
    IF vs = <<>> THEN 0
    ELSE (IF Head(vs).t = "num" THEN Head(vs).v ELSE 0) + SumNums(Tail(vs))

\* df.groupby("Reference")[name].sum(): one entry per Reference text, in
\* ascending key order; rows whose Reference is NaN belong to no group.
GroupSum(f, name) ==
    LET refs == ColumnValues(f, cReference)
        vals == ColumnValues(f, name)
        keys == SortedTexts({ refs[r].v : r \in { q \in 1..Len(refs) : refs[q].t = "str" } })
        Member(k) == [r \in 1..Len(refs) |->
                         IF refs[r] = Txt(k) THEN vals[r] ELSE Num(0)]
    IN [i \in 1..Len(keys) |-> <<keys[i], SumNums(Member(keys[i]))>>]

\* s without its i-th entry.
RemoveAt(s, i) == SubSeq(s, 1, i - 1) \o SubSeq(s, i + 1, Len(s))

\* Series.nlargest(n): the n entries of largest value in descending order,
\* entries of equal value in index order (keep="first").
RECURSIVE NLargest(_, _)
NLargest(s, n) ==
    IF n <= 0 \/ s = <<>> THEN <<>>
    ELSE LET i == SetMin({ k \in 1..Len(s) : \A j \in 1..Len(s) : s[j][2] <= s[k][2] })
         IN <<s[i]>> \o NLargest(RemoveAt(s, i), n - 1)

\* top[top > 0]
PositiveEntries(s) == SelectSeq(s, LAMBDA e : e[2] > 0)

\* A faulty variant of the filter of lines 109 and 115: top[top >= 0].
NonNegativeTop(f, name, n) ==
    IF HasColumn(f, name) /\ HasColumn(f, cReference)
    THEN SelectSeq(NLargest(GroupSum(f, name), n), LAMBDA e : e[2] >= 0)
    ELSE <<>>

\* Lines 107-110 and 113-116 for the amount column labelled name.
TopByReference(f, name, n) ==
    IF HasColumn(f, name) /\ HasColumn(f, cReference)
    THEN PositiveEntries(NLargest(GroupSum(f, name), n))
    ELSE <<>>

get_top_debits(f, n) == TopByReference(f, cDebit, n)
get_top_credits(f, n) == TopByReference(f, cCredit, n)

\* str.split(sep): the parts of s between the occurrences of sep, found
\* from the left.
RECURSIVE Split(_, _)
Split(s, sep) ==
    IF ~Contains(s, sep) THEN <<s>>
    ELSE LET k == SetMin({ i \in 0..(Len(s) - Len(sep)) :
                             \A j \in 1..Len(sep) : s[i + j] = sep[j] })
         IN <<SubSeq(s, 1, k)>> \o Split(SubSeq(s, k + Len(sep) + 1, Len(s)), sep)

\* str.replace(" ", "_")
ReplaceSpaces(s) == [k \in 1..Len(s) |-> IF s[k] = " " THEN "_" ELSE s[k]]

\* s.split(" ", 1)[1]: the text after the first blank.
AfterFirstBlank(s) ==
    LET k == SetMin({ i \in 1..Len(s) : s[i] = " " })
    IN SubSeq(s, k + 1, Len(s))

\* Lines 142-145.  Rows whose Reference is NaN never match (na=False).
search_reference(f, term) ==
    IF HasColumn(f, cReference)
    THEN Frame(f.columns, SelectSeq(f.rows, LAMBDA row :
             LET ref == row[ColumnIndex(f, cReference)]
             IN ref.t = "str" /\ Contains(Lower(ref.v), Lower(term))))
    ELSE EmptyFrame

\* The default max_amt=None of line 147.
NoMax == [t |-> "none"]

\* Lines 147-152.
filter_by_amount(f, lo, hi, col) ==
    IF HasColumn(f, col)
    THEN IF hi.t = "num" /\ hi.v > 0
         THEN Frame(f.columns, SelectSeq(f.rows, LAMBDA row :
                  /\ row[ColumnIndex(f, col)].v >= lo
                  /\ row[ColumnIndex(f, col)].v <= hi.v))
         ELSE Frame(f.columns, SelectSeq(f.rows, LAMBDA row :
                  row[ColumnIndex(f, col)].v >= lo))
    ELSE EmptyFrame

\* Timestamps of 2024 in calendar order.
StampLess(a, b) == a.month < b.month \/ (a.month = b.month /\ a.day < b.day)

RECURSIVE SortedStamps(_)
SortedStamps(S) ==
    IF S = {} THEN <<>>
    ELSE LET m == CHOOSE x \in S : \A y \in S : y = x \/ StampLess(x, y)
         IN <<m>> \o SortedStamps(S \ {m})

RECURSIVE SortedInts(_)
SortedInts(S) ==
    IF S = {} THEN <<>> ELSE <<SetMin(S)>> \o SortedInts(S \ {SetMin(S)})

\* Lines 118-121, df.groupby("Date").size(): the number of rows per date,
\* in date order; rows whose Date is NaT are in no group.
get_day_counts(f) ==
    IF HasColumn(f, cDate)
    THEN LET dates == ColumnValues(f, cDate)
             days == SortedStamps({ dates[r] : r \in { q \in 1..Len(dates) : dates[q].t = "date" } })
         IN [i \in 1..Len(days) |->
                <<days[i], Cardinality({ r \in 1..Len(dates) : dates[r] = days[i] })>>]
    ELSE <<>>

\* The days of 2024 before each month.
DaysBeforeMonth == <<0, 31, 60, 91, 121, 152, 182, 213, 244, 274, 305, 335>>

\* dt.to_period(freq) of a timestamp of 2024 for freq "M" and "W", as the
\* number of the month and of the Monday-to-Sunday week (1 January 2024 is
\* a Monday).
ToPeriod(d, freq) ==
    IF freq = "M" THEN d.month
    ELSE ((DaysBeforeMonth[d.month] + d.day - 1) \div 7) + 1

\* A summary table: rows of <<period, Debit sum, Credit sum>>.
Summary(rows) == [kind |-> "summary", rows |-> rows]

\* Lines 128-133 and 135-140 for the period freq: the Debit and the Credit
\* sum per period, in period order.  groupby(...)[["Debit", "Credit"]]
\* raises KeyError when one of the two columns is missing.
PeriodSummary(f, freq) ==
    IF ~HasColumn(f, cDate) THEN Summary(<<>>)
    ELSE IF ~HasColumn(f, cDebit) \/ ~HasColumn(f, cCredit) THEN Raised
    ELSE LET dates == ColumnValues(f, cDate)
             dated == { r \in 1..Len(dates) : dates[r].t = "date" }
             periods == SortedInts({ ToPeriod(dates[r], freq) : r \in dated })
             In(p, name) ==
                 [r \in 1..Len(dates) |->
                     IF r \in dated /\ ToPeriod(dates[r], freq) = p
                     THEN ColumnValues(f, name)[r] ELSE Num(0)]
         IN Summary([i \in 1..Len(periods) |->
                <<periods[i], SumNums(In(periods[i], cDebit)),
                  SumNums(In(periods[i], cCredit))>>])

get_monthly_summary(f) == PeriodSummary(f, "M")
get_weekly_summary(f) == PeriodSummary(f, "W")

\* Lines 154-157, df["Reference"].value_counts(): the number of rows per
\* Reference text (NaN is not counted), as a set of <<text, count>>.
transaction_count_by_reference(f) ==
    IF HasColumn(f, cReference)
    THEN LET refs == ColumnValues(f, cReference)
         IN { <<refs[r].v, Cardinality({ q \in 1..Len(refs) : refs[q] = refs[r] })>> :
                r \in { q \in 1..Len(refs) : refs[q].t = "str" } }
    ELSE {}

\* Series.max() of a column of numbers; NaN for the empty pd.Series() that
\* df.get gives for a missing column.
ColumnMax(f, name) ==
    IF HasColumn(f, name) /\ Len(f.rows) > 0
    THEN LET vs == ColumnValues(f, name)
         IN Num(CHOOSE m \in { vs[r].v : r \in 1..Len(vs) } :
                    \A r \in 1..Len(vs) : vs[r].v <= m)
    ELSE NaN

\* Series.sum() of a column of numbers, 0 for a missing column.
ColumnSum(f, name) ==
    IF HasColumn(f, name) THEN SumNums(ColumnValues(f, name)) ELSE 0

(***************************************************************************)
(* The query of a run and the dispatch chain, lines 195-337.               *)
(***************************************************************************)
\* Lines 195-200.  "*" stands for the emoji that starts each label.
quick_options ==
    <<
      <<"*", " ", "H", "i", "g", "h", "e", "s", "t", " ", "D", "e", "b",
        "i", "t">>,
      <<"*", " ", "H", "i", "g", "h", "e", "s", "t", " ", "C", "r", "e",
        "d", "i", "t">>,
      <<"*", " ", "M", "o", "s", "t", " ", "T", "r", "a", "n", "s", "a",
        "c", "t", "i", "o", "n", "s">>,
      <<"*", " ", "T", "o", "t", "a", "l", " ", "S", "p", "e", "n", "t">>,
      <<"*", " ", "T", "o", "t", "a", "l", " ", "D", "e", "p", "o", "s",
        "i", "t", "e", "d">>,
      <<"*", " ", "M", "o", "n", "t", "h", "l", "y", " ", "S", "u", "m",
        "m", "a", "r", "y">>,
      <<"*", " ", "W", "e", "e", "k", "l", "y", " ", "S", "u", "m", "m",
        "a", "r", "y">>,
      <<"*", " ", "T", "r", "a", "n", "s", "a", "c", "t", "i", "o", "n",
        " ", "C", "o", "u", "n", "t", " ", "b", "y", " ", "R", "e", "f",
        "e", "r", "e", "n", "c", "e">>,
      <<"*", " ", "M", "o", "s", "t", " ", "F", "r", "e", "q", "u", "e",
        "n", "t", " ", "R", "e", "f", "e", "r", "e", "n", "c", "e">>,
      <<"*", " ", "L", "a", "r", "g", "e", "s", "t", " ", "T", "r", "a",
        "n", "s", "a", "c", "t", "i", "o", "n">>
    >>

\* A faulty variant of line 203: the key without .lower().
QuickKeyNoLower(label) == ReplaceSpaces(AfterFirstBlank(label))

\* Line 203.
QuickKey(label) == ReplaceSpaces(Lower(AfterFirstBlank(label)))

\* The substrings the chain tests for, lines 215-306.
k_highest_debit ==
    <<"h", "i", "g", "h", "e", "s", "t", "_", "d", "e", "b", "i", "t">>
k_highest_credit ==
    <<"h", "i", "g", "h", "e", "s", "t", "_", "c", "r", "e", "d", "i",
      "t">>
k_most_transactions ==
    <<"m", "o", "s", "t", "_", "t", "r", "a", "n", "s", "a", "c", "t",
      "i", "o", "n", "s">>
k_total_spent ==
    <<"t", "o", "t", "a", "l", "_", "s", "p", "e", "n", "t">>
k_total_deposited ==
    <<"t", "o", "t", "a", "l", "_", "d", "e", "p", "o", "s", "i", "t",
      "e", "d">>
k_monthly_summary ==
    <<"m", "o", "n", "t", "h", "l", "y", "_", "s", "u", "m", "m", "a",
      "r", "y">>
k_weekly_summary ==
    <<"w", "e", "e", "k", "l", "y", "_", "s", "u", "m", "m", "a", "r",
      "y">>
k_count_by_reference ==
    <<"c", "o", "u", "n", "t", "_", "b", "y", "_", "r", "e", "f", "e",
      "r", "e", "n", "c", "e">>
k_most_frequent_reference ==
    <<"m", "o", "s", "t", "_", "f", "r", "e", "q", "u", "e", "n", "t",
      "_", "r", "e", "f", "e", "r", "e", "n", "c", "e">>
k_largest_transaction ==
    <<"l", "a", "r", "g", "e", "s", "t", "_", "t", "r", "a", "n", "s",
      "a", "c", "t", "i", "o", "n">>
k_filter_reference_amount ==
    <<"f", "i", "l", "t", "e", "r", "_", "r", "e", "f", "e", "r", "e",
      "n", "c", "e", "_", "a", "m", "o", "u", "n", "t">>

\* The free-text triggers of line 321.
t_how_much == <<"h", "o", "w", " ", "m", "u", "c", "h">>
t_spent_on == <<"s", "p", "e", "n", "t", " ", "o", "n">>
t_spend_on == <<"s", "p", "e", "n", "d", " ", "o", "n">>
t_on == <<"o", "n">>

\* The branch of the if/elif chain of lines 215-337 that q selects.
Branch(q) ==
    IF Contains(q, k_highest_debit) THEN "highest_debit"
    ELSE IF Contains(q, k_highest_credit) THEN "highest_credit"
    ELSE IF Contains(q, k_most_transactions) THEN "most_transactions"
    ELSE IF Contains(q, k_total_spent) THEN "total_spent"
    ELSE IF Contains(q, k_total_deposited) THEN "total_deposited"
    ELSE IF Contains(q, k_monthly_summary) THEN "monthly_summary"
    ELSE IF Contains(q, k_weekly_summary) THEN "weekly_summary"
    ELSE IF Contains(q, k_count_by_reference) THEN "transaction_count_by_reference"
    ELSE IF Contains(q, k_most_frequent_reference) THEN "most_frequent_reference"
    ELSE IF Contains(q, k_largest_transaction) THEN "largest_transaction"
    ELSE IF Contains(q, k_filter_reference_amount) THEN "filter_reference_amount"
    ELSE IF \/ Contains(q, t_how_much) \/ Contains(q, t_spent_on)
            \/ Contains(q, t_spend_on) THEN "free_text"
    ELSE "not_understood"

\* What a run displays: the query, the branch taken, the kind of display
\* ("result", "no_data" for a warning or info that nothing was found,
\* "hint", "not_understood", or "exception" for an error that ends the
\* run), the value shown, and for the free-text branch whether
\* search_reference was called and with which term.
Display(q, branch, shows, value) ==
    [q |-> q, branch |-> branch, shows |-> shows, value |-> value,
     searched |-> FALSE, term |-> <<>>]

NoDisplay == [shows |-> "nothing"]

\* Lines 216-223 and 226-236.
ShowTop(q, branch, top) ==
    IF top # <<>> THEN Display(q, branch, "result", top[1])
    ELSE Display(q, branch, "no_data", <<>>)

\* Lines 263-270 and 273-280.
ShowSummary(q, branch, summary) ==
    IF summary.kind = "raised" THEN Display(q, branch, "exception", <<>>)
    ELSE IF summary.rows # <<>> THEN Display(q, branch, "result", summary.rows)
    ELSE Display(q, branch, "no_data", <<>>)

\* Lines 307-319.
ShowFilter(f, q, term, lo, hi, col) ==
    LET found == IF term # <<>> THEN search_reference(f, term) ELSE f
        fdf == IF hi > 0 THEN filter_by_amount(found, lo, Num(hi), col)
               ELSE filter_by_amount(found, lo, NoMax, col)
    IN IF ~IsEmptyFrame(fdf)
       THEN Display(q, "filter_reference_amount", "result", fdf.rows)
       ELSE Display(q, "filter_reference_amount", "no_data", <<>>)

\* Lines 322-334.
ShowFreeText(f, q) ==
    LET parts == Split(q, t_on)
    IN IF Len(parts) > 1
       THEN LET term == Strip(parts[Len(parts)])
                filtered_df == search_reference(f, term)
            IN IF ~IsEmptyFrame(filtered_df)
               THEN [q |-> q, branch |-> "free_text", shows |-> "result",
                     value |-> ColumnSum(filtered_df, cDebit),
                     searched |-> TRUE, term |-> term]
               ELSE [q |-> q, branch |-> "free_text", shows |-> "no_data",
                     value |-> <<>>, searched |-> TRUE, term |-> term]
       ELSE Display(q, "free_text", "hint", <<>>)

\* Lines 213-337 for the stored table f and the query q.
Dispatch(f, q, term, lo, hi, col) ==
    LET b == Branch(q)
    IN IF q = <<>> THEN NoDisplay
       ELSE IF b = "highest_debit" THEN ShowTop(q, b, get_top_debits(f, 5))
       ELSE IF b = "highest_credit" THEN ShowTop(q, b, get_top_credits(f, 5))
       ELSE IF b = "most_transactions"
            THEN LET day_counts == get_day_counts(f)
                 IN IF day_counts # <<>>
                    THEN Display(q, b, "result", NLargest(day_counts, 1)[1])
                    ELSE Display(q, b, "no_data", <<>>)
       ELSE IF b = "total_spent"
            THEN IF HasColumn(f, cDebit)
                 THEN Display(q, b, "result", ColumnSum(f, cDebit))
                 ELSE Display(q, b, "no_data", <<>>)
       ELSE IF b = "total_deposited"
            THEN IF HasColumn(f, cCredit)
                 THEN Display(q, b, "result", ColumnSum(f, cCredit))
                 ELSE Display(q, b, "no_data", <<>>)
       ELSE IF b = "monthly_summary" THEN ShowSummary(q, b, get_monthly_summary(f))
       ELSE IF b = "weekly_summary" THEN ShowSummary(q, b, get_weekly_summary(f))
       ELSE IF b = "transaction_count_by_reference"
            THEN LET counts == transaction_count_by_reference(f)
                 IN IF counts # {} THEN Display(q, b, "result", counts)
                    ELSE Display(q, b, "no_data", <<>>)
       ELSE IF b = "most_frequent_reference"
            THEN LET counts == transaction_count_by_reference(f)
                 IN IF counts # {}
                    THEN Display(q, b, "result",
                             CHOOSE m \in { c[2] : c \in counts } :
                                 \A c \in counts : c[2] <= m)
                    ELSE Display(q, b, "no_data", <<>>)
       ELSE IF b = "largest_transaction"
            THEN Display(q, b, "result",
                         <<ColumnMax(f, cDebit), ColumnMax(f, cCredit)>>)
       ELSE IF b = "filter_reference_amount"
            THEN ShowFilter(f, q, term, lo, hi, col)
       ELSE IF b = "free_text" THEN ShowFreeText(f, q)
       ELSE Display(q, b, "not_understood", <<>>)

(***************************************************************************)
(* SpecDedup: the deduplication step applied to every bounded header, and  *)
(* then again to its own output.                                           *)
(***************************************************************************)
MaxHeaderLen == 3

\* Labels that collide with the suffixes the loop generates, and one that
\* does not.
DedupLabels ==
    { <<"a">>, <<"a", "_", "1">>, <<"a", "_", "2">>, <<"b">> }

SeqsUpTo(S, n) == UNION { [1..k -> S] : k \in 0..n }

DedupInit ==
    /\ hdr \in SeqsUpTo(DedupLabels, MaxHeaderLen)
    /\ dcols = <<>>
    /\ dcols2 = <<>>
    /\ dpc = "header"
    /\ NormIdle /\ SessIdle /\ TopIdle /\ QueryIdle

DedupOnce ==
    /\ dpc = "header"
    /\ dcols' = DedupColumns(hdr)
    /\ dpc' = "once"
    /\ UNCHANGED <<hdr, dcols2, normVars, sessVars, topVars, queryVars>>

DedupAgain ==
    /\ dpc = "once"
    /\ dcols2' = DedupColumns(dcols)
    /\ dpc' = "twice"
    /\ UNCHANGED <<hdr, dcols, normVars, sessVars, topVars, queryVars>>

DedupNext == DedupOnce \/ DedupAgain

SpecDedup == DedupInit /\ [][DedupNext]_vars

\* Position i is the first occurrence of its label in header h.
FirstOccurrence(h, i) == \A j \in 1..(i - 1) : h[j] # h[i]

\* C2: the deduplicated header has the length of the input, its labels are
\* pairwise distinct, a first occurrence keeps its text and a later
\* occurrence at (0-based) position i becomes <label>_<i>.
C2_DedupDistinctPositional ==
    dpc # "header" =>
        /\ Len(dcols) = Len(hdr)
        /\ PairwiseDistinct(dcols)
        /\ \A i \in 1..Len(hdr) :
              dcols[i] = IF FirstOccurrence(hdr, i) THEN hdr[i]
                         ELSE hdr[i] \o <<"_">> \o IntToStr(i - 1)

\* C3: deduplication is idempotent, dedup(dedup(h)) = dedup(h).
C3_DedupIdempotent ==
    dpc = "twice" => dcols2 = dcols

(***************************************************************************)
(* SpecNormalize: process_pdf_data applied to every bounded PDF.           *)
(***************************************************************************)
MaxPages == 2
MaxCols == 2
MaxDataRows == 1

\* Header labels: one per role, one that matches two roles, one that
\* matches none.
NormLabels ==
    { <<"D", "a", "t", "e">>,
      <<"D", "e", "p", "o", "s", "i", "t", " ", "D", "a", "t", "e">>,
      <<"D", "e", "b", "i", "t">>,
      <<"R", "e", "f">>,
      <<"I", "n", "f", "o">> }

\* Cell texts: a negative amount, a thousands separator, surrounding
\* blanks, no number at all, nothing, a date.
NormCells ==
    << <<"-", "5">>, <<"1", ",", "2">>, <<" ", "7", " ">>, <<"x">>, <<>>,
       <<"1", "/", "2", "/", "2", "4">> >>

\* A data row of n cells: the cell texts in catalogue order from the k-th.
RowFrom(k, n) ==
    [c \in 1..n |-> NormCells[((k + c - 2) % Len(NormCells)) + 1]]

\* The tables page.extract_table() may give: a header of 1..MaxCols labels
\* and up to MaxDataRows rows of as many cells.
PageTables ==
    UNION { { <<h>> \o [r \in 1..Len(ks) |-> RowFrom(ks[r], n)] :
                h \in [1..n -> NormLabels],
                ks \in SeqsUpTo(1..Len(NormCells), MaxDataRows) } :
            n \in 1..MaxCols }

NormInit ==
    /\ nfile \in { Pdf(<<>>, FALSE, pages) :
                     pages \in SeqsUpTo(PageTables \cup {<<>>}, MaxPages) }
    /\ nres = <<>>
    /\ npc = "file"
    /\ DedupIdle /\ SessIdle /\ TopIdle /\ QueryIdle

Normalize ==
    /\ npc = "file"
    /\ nres' = process_pdf_data(nfile, <<>>)
    /\ npc' = "done"
    /\ UNCHANGED <<nfile, dedupVars, sessVars, topVars, queryVars>>

NormNext == Normalize

SpecNormalize == NormInit /\ [][NormNext]_vars

\* The concatenated table of the PDF under normalisation.
NormConcat == ConcatFrames(PageFrames(nfile.pages))

\* The role's canonical column exists exactly once in the result and holds
\* the coerced values of the first matching column of table t; or no label
\* of t matches and the canonical column is absent.
RoleProjected(t, triggers, name, g(_)) ==
    LET hits == { i \in 1..Len(t.columns) : MatchesRole(t.columns[i], triggers) }
    IN IF hits # {}
       THEN /\ nres.kind = "frame"
            /\ Cardinality(ColumnPositions(nres, name)) = 1
            /\ Len(nres.rows) = Len(t.rows)
            /\ \A r \in 1..Len(t.rows) :
                  nres.rows[r][ColumnIndex(nres, name)] = g(t.rows[r][SetMin(hits)])
       ELSE nres.kind = "frame" /\ ~HasColumn(nres, name)

Identity(v) == v

\* C4: for each canonical role, if a label of the concatenated table
\* contains one of its triggers the result has exactly one column of that
\* canonical name with the first such column's values, else none; also
\* when one label matches several roles.
C4_EachRoleOneColumn ==
    (npc = "done" /\ PageFrames(nfile.pages) # <<>>) =>
        /\ RoleProjected(NormConcat, DateTriggers, cDate, ToDatetime)
        /\ RoleProjected(NormConcat, DebitTriggers, cDebit, CoerceAmount)
        /\ RoleProjected(NormConcat, CreditTriggers, cCredit, CoerceAmount)
        /\ RoleProjected(NormConcat, ReferenceTriggers, cReference, Identity)

\* C5: every Debit and Credit value of a returned table is a number, never
\* null, and not negative.
C5_AmountsNonNegative ==
    (npc = "done" /\ nres.kind = "frame") =>
        \A c \in 1..Len(nres.columns) :
            nres.columns[c] \in {cDebit, cCredit} =>
                \A r \in 1..Len(nres.rows) :
                    nres.rows[r][c].t = "num" /\ nres.rows[r][c].v >= 0

(***************************************************************************)
(* Spec: the upload part of a script run, lines 84-103, run after run in   *)
(* one session.                                                            *)
(***************************************************************************)
MaxAttempts == 3

\* DEFAULTS["df"], line 17.
NoStore == [kind |-> "none"]

lDate == <<"D", "a", "t", "e">>
lDebit == <<"D", "e", "b", "i", "t">>
lRef == <<"R", "e", "f">>
lInfo == <<"I", "n", "f", "o">>
lDepositDate == <<"D", "e", "p", "o", "s", "i", "t", " ", "D", "a", "t", "e">>
tDay == <<"1", "/", "2", "/", "2", "4">>
tAmount == <<"1", ",", "2">>
tMinus == <<"-", "5">>
tWord == <<"x">>
GoodPassword == <<"p", "w">>
WrongPassword == <<"n", "o">>

\* The PDFs a user of this session may upload or link: two statements with
\* different tables, one whose pages have different headers, one that is
\* encrypted, one that cannot be read, one without tables, one whose table
\* has no role column, one with a header and no rows, and one whose only
\* label matches two roles.
SamplePdfs ==
    { Pdf(<<>>, FALSE, << <<<<lDate, lDebit>>, <<tDay, tAmount>>>> >>),
      Pdf(<<>>, FALSE, << <<<<lRef, lDebit>>, <<tWord, tMinus>>>> >>),
      Pdf(<<>>, FALSE, << <<<<lDate>>, <<tDay>>>>, <<>>,
                          <<<<lRef, lDebit>>, <<tWord, tAmount>>>> >>),
      Pdf(GoodPassword, FALSE, << <<<<lDate, lRef>>, <<tDay, tWord>>>> >>),
      Pdf(<<>>, TRUE, << <<<<lDate>>, <<tDay>>>> >>),
      Pdf(<<>>, FALSE, << <<>>, <<>> >>),
      Pdf(<<>>, FALSE, << <<<<lInfo>>, <<tWord>>>> >>),
      Pdf(<<>>, FALSE, << <<<<lDate, lDebit>>>> >>),
      Pdf(<<>>, FALSE, << <<<<lDepositDate>>, <<tDay>>>> >>) }

\* st.file_uploader gives None or the uploaded file.
NoFile == [kind |-> "nofile"]
\* The text of the link field: empty or a link.
UrlTexts == { <<>>, <<"u">> }
PasswordTexts == { <<>>, GoodPassword, WrongPassword }

\* Line 95.  fetched is what get_pdf_from_url gives for the link in this
\* run: the PDF behind it, or None after a failed request.
PdfSource(uploaded_file, url, fetched) ==
    IF uploaded_file # NoFile THEN uploaded_file
    ELSE IF url # <<>> THEN fetched
    ELSE NoFile

\* A faulty variant of the handler: the store also takes an empty table.
StoreAfterProcessKeepsEmpty(old, r) ==
    IF r.kind = "frame" THEN r ELSE old

\* Lines 99-103: the store after process_pdf_data returned r.
StoreAfterProcess(old, r) ==
    IF r.kind = "frame" /\ ~IsEmptyFrame(r) THEN r ELSE old

\* What the run shows after process_pdf_data returned r.
ShownAfterProcess(r) ==
    IF r.kind = "raised" THEN "exception"
    ELSE IF r.kind = "none" THEN "error"
    ELSE IF ~IsEmptyFrame(r) THEN "success"
    ELSE "warning"

Init ==
    /\ df = NoStore
    /\ pdf_url = <<>>
    /\ result = NoStore
    /\ shown = "start"
    /\ attempts = 0
    /\ DedupIdle /\ NormIdle /\ TopIdle /\ QueryIdle

\* What get_pdf_from_url may give in a run: it is called only when nothing
\* is uploaded and the link field is not empty (line 95); the request gives
\* a PDF, or fails and None is returned after st.error.
Fetchable(uploaded_file, url) ==
    IF uploaded_file = NoFile /\ url # <<>> THEN SamplePdfs \cup {NoFile}
    ELSE {NoFile}

\* A run in which "Process PDF" is not pressed, or is not offered because
\* there is no PDF source: only the link text is stored (line 90).
RunWithoutProcess ==
    \E uploaded_file \in SamplePdfs \cup {NoFile}, url \in UrlTexts :
        \E fetched \in Fetchable(uploaded_file, url) :
            /\ pdf_url' = url
            /\ shown' = IF uploaded_file = NoFile /\ url # <<>> /\ fetched = NoFile
                        THEN "fetch_error" ELSE "start"
            /\ UNCHANGED <<df, result, attempts, dedupVars, normVars, topVars, queryVars>>

\* A run with a PDF source in which "Process PDF" is pressed, lines 96-103.
\* An exception that leaves process_pdf_data ends the run at line 98.
RunProcessPdf ==
    \E uploaded_file \in SamplePdfs \cup {NoFile}, url \in UrlTexts,
       password \in PasswordTexts :
        \E fetched \in Fetchable(uploaded_file, url) :
            LET pdf_source == PdfSource(uploaded_file, url, fetched)
                r == process_pdf_data(pdf_source, password)
            IN /\ attempts < MaxAttempts
               /\ pdf_source # NoFile
               /\ pdf_url' = url
               /\ result' = r
               /\ df' = IF r.kind = "raised" THEN df
                        ELSE StoreAfterProcess(df, r)
               /\ shown' = ShownAfterProcess(r)
               /\ attempts' = attempts + 1
               /\ UNCHANGED <<dedupVars, normVars, topVars, queryVars>>

Next == RunWithoutProcess \/ RunProcessPdf

Spec == Init /\ [][Next]_vars

\* C1: an attempt whose result is a failure (None) or an empty table
\* leaves the stored table as it was, and an attempt that yields a
\* non-empty table makes that table the store.
C1_FailedAttemptKeepsStore ==
    [][attempts' # attempts =>
          IF /\ result'.kind = "frame"
             /\ Len(result'.columns) > 0
             /\ Len(result'.rows) > 0
          THEN df' = result'
          ELSE df' = df]_vars

\* A failed attempt (wrong password or unreadable file) after an earlier
\* one had stored a table, which is still the store.
C1_Witness ==
    /\ attempts >= 2
    /\ result.kind = "none"
    /\ df.kind = "frame"

(***************************************************************************)
(* SpecTop: get_top_debits and get_top_credits on every bounded table.     *)
(***************************************************************************)
MaxTopRows == 3
MaxTopN == 2

TopRefs == { Txt(<<"a">>), Txt(<<"b">>), NaN }
TopAmounts == { Num(0 - 1), Num(0), Num(1) }

\* Normalised tables with an amount column and a Reference column, and
\* tables that lack the Reference column.
TopTables ==
    { Frame(<<a, cReference>>, rows) :
        a \in {cDebit, cCredit},
        rows \in SeqsUpTo({ <<x, y>> : x \in TopAmounts, y \in TopRefs }, MaxTopRows) }
    \cup
    { Frame(<<cDebit>>, rows) :
        rows \in SeqsUpTo({ <<x>> : x \in TopAmounts }, MaxTopRows) }

TopInit ==
    /\ tdf \in TopTables
    /\ tn \in 0..MaxTopN
    /\ tout = <<>>
    /\ tpc = "table"
    /\ DedupIdle /\ NormIdle /\ SessIdle /\ QueryIdle

TopDebits ==
    /\ tpc = "table"
    /\ tout' = get_top_debits(tdf, tn)
    /\ tpc' = "debits"
    /\ UNCHANGED <<tdf, tn, dedupVars, normVars, sessVars, queryVars>>

TopCredits ==
    /\ tpc = "table"
    /\ tout' = get_top_credits(tdf, tn)
    /\ tpc' = "credits"
    /\ UNCHANGED <<tdf, tn, dedupVars, normVars, sessVars, queryVars>>

TopNext == TopDebits \/ TopCredits

SpecTop == TopInit /\ [][TopNext]_vars

\* C6 as stated: at most n entries, every sum > 0, the sums in strictly
\* descending order.
C6_TopStrictlyDescending ==
    tpc \in {"debits", "credits"} =>
        /\ Len(tout) <= tn
        /\ \A i \in 1..Len(tout) : tout[i][2] > 0
        /\ \A i \in 1..(Len(tout) - 1) : tout[i][2] > tout[i + 1][2]

\* C6 as amended: at most n entries, every sum > 0, the sums in descending
\* order where equal sums may follow one another.
C6_TopDescending ==
    tpc \in {"debits", "credits"} =>
        /\ Len(tout) <= tn
        /\ \A i \in 1..Len(tout) : tout[i][2] > 0
        /\ \A i \in 1..(Len(tout) - 1) : tout[i][2] >= tout[i + 1][2]

\* Two References with the same positive sum are both returned.
C6_Witness ==
    /\ tpc = "debits"
    /\ Len(tout) = 2
    /\ tout[1][2] = tout[2][2]

(***************************************************************************)
(* SpecQuery: the main interface of a script run, lines 178-337, with a    *)
(* table in the store: the sidebar, the quick-analysis radio, the typed    *)
(* question and the dispatch, in the order the script executes them, run   *)
(* after run.                                                              *)
(***************************************************************************)
\* Rows of a normalised table with all four columns, in the column order
\* Date, Debit, Credit, Reference of line 67.
StoreRows ==
    { << <<Stamp(1, 2), Num(12), Num(0), Txt(<<"T", "e", "a">>)>>,
         <<Stamp(2, 3), Num(3), Num(7), Txt(<<"R", "e", "n", "t">>)>>,
         <<NaT, Num(0), Num(4), NaN>> >>,
      << <<NaT, Num(0), Num(0), NaN>> >> }

CanonicalColumns == <<cDate, cDebit, cCredit, cReference>>

\* The sequence s restricted to the positions in P, in order.
Pick(s, P) == LET ps == SortedInts(P) IN [k \in 1..Len(ps) |-> s[ps[k]]]

\* The non-empty tables the store may hold: every non-empty subset of the
\* canonical columns, over each of the row sets.
Stores ==
    { Frame(Pick(CanonicalColumns, P), [r \in 1..Len(rows) |-> Pick(rows[r], P)]) :
        P \in (SUBSET (1..4)) \ {{}}, rows \in StoreRows }

\* What the user may have in the sidebar fields.
SearchTerms == { <<>>, <<"t", "e", "a">> }
AmountRanges == { <<0, 0>>, <<1, 0>>, <<0, 5>> }

\* What the user may have typed as a question; <<>> is the empty field.
UserTexts ==
    { <<>>,
      <<"H", "o", "w", " ", "m", "u", "c", "h", " ", "d", "i", "d", " ",
        "I", " ", "s", "p", "e", "n", "d", " ", "o", "n", " ", "t", "e",
        "a">>,
      <<"h", "o", "w", " ", "m", "u", "c", "h", " ", "d", "i", "d", " ",
        "i", " ", "s", "p", "e", "n", "d", " ", "o", "n">>,
      <<"h", "o", "w", " ", "m", "u", "c", "h">>,
      <<"s", "p", "e", "n", "d", " ", "o", "n", " ">>,
      <<"h", "e", "l", "l", "o">>,
      <<"m", "o", "n", "e", "y", " ", "o", "n", " ", "t", "e", "a">>,
      <<"f", "i", "l", "t", "e", "r", "_", "r", "e", "f", "e", "r", "e",
        "n", "c", "e", "_", "a", "m", "o", "u", "n", "t">>,
      <<"T", "o", "t", "a", "l", "_", "S", "p", "e", "n", "t", " ", "h",
        "o", "w", " ", "m", "u", "c", "h">>,
      <<"c", "o", "u", "n", "t", "_", "b", "y", "_", "r", "e", "f", "e",
        "r", "e", "n", "c", "e">>
    }

QueryInit ==
    /\ df \in Stores
    /\ pdf_url = <<>> /\ result = <<>> /\ shown = "idle" /\ attempts = 0
    /\ query = <<>>
    /\ search_term = <<>>
    /\ min_amt = 0
    /\ max_amt = 0
    /\ amt_col = cDebit
    /\ applied = FALSE
    /\ selected = 0
    /\ user_query = <<>>
    /\ out = NoDisplay
    /\ qpc = "rerun"
    /\ DedupIdle /\ NormIdle /\ TopIdle

\* Lines 178-191: a run starts, the page is drawn anew, the sidebar fields
\* are stored, and Apply Filters, when pressed, sets the query.
Sidebar ==
    \E term \in SearchTerms, range \in AmountRanges,
       col \in {cDebit, cCredit}, pressed \in BOOLEAN :
        /\ qpc = "rerun"
        /\ df.kind = "frame" /\ ~IsEmptyFrame(df)
        /\ search_term' = term
        /\ min_amt' = range[1]
        /\ max_amt' = range[2]
        /\ amt_col' = col
        /\ applied' = pressed
        /\ query' = IF pressed THEN k_filter_reference_amount ELSE query
        /\ selected' = 0
        /\ user_query' = <<>>
        /\ out' = NoDisplay
        /\ qpc' = "radio"
        /\ UNCHANGED <<dedupVars, normVars, sessVars, topVars>>

\* Lines 201-203: st.radio always has one option selected (the first by
\* default), so the key of the selection is stored in every run.
QuickAnalysis ==
    \E i \in 1..Len(quick_options) :
        /\ qpc = "radio"
        /\ selected' = i
        /\ query' = QuickKey(quick_options[i])
        /\ qpc' = "question"
        /\ UNCHANGED <<search_term, min_amt, max_amt, amt_col, applied,
                       user_query, out, dedupVars, normVars, sessVars, topVars>>

\* Lines 207-209.
Question ==
    \E text \in UserTexts :
        /\ qpc = "question"
        /\ user_query' = text
        /\ query' = IF text # <<>> THEN Lower(text) ELSE query
        /\ qpc' = "dispatch"
        /\ UNCHANGED <<search_term, min_amt, max_amt, amt_col, applied,
                       selected, out, dedupVars, normVars, sessVars, topVars>>

\* Lines 213-337; the run ends and the next may start.
Analysis ==
    /\ qpc = "dispatch"
    /\ out' = Dispatch(df, query, search_term, min_amt, max_amt, amt_col)
    /\ qpc' = "rerun"
    /\ UNCHANGED <<query, search_term, min_amt, max_amt, amt_col, applied,
                   selected, user_query, dedupVars, normVars, sessVars, topVars>>

QueryNext == Sidebar \/ QuickAnalysis \/ Question \/ Analysis

SpecQuery == QueryInit /\ [][QueryNext]_vars

\* A run has ended and displayed something.
RunDone == qpc = "rerun" /\ out.shows # "nothing"

\* C7: with any non-empty table in the store, dispatching one of the ten
\* fixed menu keys ends in a displayed result or a displayed no-data
\* message, never in a raised error.
C7_FixedKeysNeverRaise ==
    (RunDone /\ user_query = <<>>) => out.shows \in {"result", "no_data"}

\* The text of q after the last occurrence of sep; nothing when sep does
\* not occur.
TextAfterLast(q, sep) ==
    IF ~Contains(q, sep) THEN <<>>
    ELSE LET k == CHOOSE i \in 0..(Len(q) - Len(sep)) :
                    /\ SubSeq(q, i + 1, i + Len(sep)) = sep
                    /\ \A j \in (i + 1)..(Len(q) - Len(sep)) :
                           SubSeq(q, j + 1, j + Len(sep)) # sep
         IN SubSeq(q, k + Len(sep) + 1, Len(q))

\* The sum of Debit over the rows of the store whose Reference contains
\* term, case-insensitively.
DebitSpentOn(term) ==
    LET rows == SelectSeq(df.rows, LAMBDA row :
                    /\ HasColumn(df, cReference)
                    /\ row[ColumnIndex(df, cReference)].t = "str"
                    /\ Contains(Lower(row[ColumnIndex(df, cReference)].v), Lower(term)))
    IN IF HasColumn(df, cDebit)
       THEN SumNums([r \in 1..Len(rows) |-> rows[r][ColumnIndex(df, cDebit)]])
       ELSE 0

\* C8: on the free-text path, when the text after the last "on" is empty
\* after trimming (also when there is no "on") the usage hint is shown and
\* no reference search is made; otherwise search_reference is called with
\* that text and the sum of Debit over the matching rows is reported.
C8_EmptyTermGivesHint ==
    (RunDone /\ out.branch = "free_text") =>
        IF Strip(TextAfterLast(out.q, t_on)) = <<>>
        THEN out.shows = "hint" /\ ~out.searched
        ELSE /\ out.searched
             /\ out.term = Strip(TextAfterLast(out.q, t_on))
             /\ out.shows = "result" => out.value = DebitSpentOn(out.term)

\* The ten fixed menu keys, in the order of the quick options.
FixedKeys ==
    <<"highest_debit", "highest_credit", "most_transactions", "total_spent",
      "total_deposited", "monthly_summary", "weekly_summary",
      "transaction_count_by_reference", "most_frequent_reference",
      "largest_transaction">>

k_transaction_count_by_reference == <<"t", "r", "a", "n", "s", "a", "c", "t", "i", "o", "n", "_">> \o k_count_by_reference

FixedKeyTexts ==
    { k_highest_debit, k_highest_credit, k_most_transactions, k_total_spent,
      k_total_deposited, k_monthly_summary, k_weekly_summary,
      k_transaction_count_by_reference, k_most_frequent_reference,
      k_largest_transaction }

FreeTextTriggers == { t_how_much, t_spent_on, t_spend_on }

\* The key of the selected quick option reaches its own branch and the
\* free-text branch is taken only by a query without a fixed key.
OwnBranchAndFreeTextLast ==
    /\ user_query = <<>> => out.branch = FixedKeys[selected]
    /\ out.branch = "free_text" =>
           \A k \in FixedKeyTexts : ~Contains(out.q, k)

\* C9 as stated: each fixed key produced from a quick option is dispatched
\* to its own branch, free text is tried only for a query without a fixed
\* key, and a query with neither a fixed key nor a free-text trigger is
\* not understood.
C9_OnlyKeysAndFreeText ==
    RunDone =>
        /\ OwnBranchAndFreeTextLast
        /\ (\A k \in FixedKeyTexts \cup FreeTextTriggers : ~Contains(out.q, k))
               => out.branch = "not_understood"

\* C9 as amended: the same, where the query that is not understood also
\* contains neither "count_by_reference" (the substring the chain tests
\* for the transaction count) nor "filter_reference_amount".
C9_KeysFilterAndFreeText ==
    RunDone =>
        /\ OwnBranchAndFreeTextLast
        /\ (\A k \in FixedKeyTexts \cup FreeTextTriggers
                       \cup {k_count_by_reference, k_filter_reference_amount} :
                ~Contains(out.q, k))
               => out.branch = "not_understood"

\* The transaction count option, whose key contains the tested substring
\* in its middle, reached its branch.
C9_Witness ==
    /\ RunDone
    /\ user_query = <<>>
    /\ selected = 8
    /\ out.branch = "transaction_count_by_reference"

\* C10: in a run in which Apply Filters was pressed and no question is
\* typed, the query that reaches the dispatch chain is
\* filter_reference_amount.
C10_ApplyFiltersReachesDispatch ==
    (RunDone /\ applied /\ user_query = <<>>) =>
        /\ out.q = k_filter_reference_amount
        /\ out.branch = "filter_reference_amount"

====
